---- MODULE Spec2Model ----
(***************************************************************************)
(* billy-router: a virtual filesystem that routes every path to one of the *)
(* filesystems mounted in a prefix tree of path segments.                  *)
(*                                                                         *)
(* A Go string is modelled as a sequence of one-character strings, so that *)
(* path.Clean, strings.TrimRight, strings.Split and strings.Join are       *)
(* computed, not assumed.  The mount table (Router.routes, a tree of       *)
(* *subRoute) is a function from a node's segment path to its fields; the  *)
(* root node is the empty segment path.                                    *)
(***************************************************************************)
EXTENDS Naturals, Integers, Sequences, FiniteSets, TLC

VARIABLES
    routes,                        \* Router.routes: node path -> [fs, mtime]
    crossFilesystemRenameCallback, \* Router.crossFilesystemRenameCallback
    clock,                         \* the value time.Now() returns
    op,                            \* the last call made on the router
    args,                          \* its path arguments
    ret,                           \* what it returned
    calls,                         \* the backend and callback calls it made
    pre,                           \* Router.routes as the last call found it
    mark,                          \* a Mount just made, or just made and followed by one
                                   \* Umount or ReadDir: its path and the table before it
    mtx,                           \* Router.mtx: the writer and the readers that hold it
    pc,                            \* of each goroutine: the line of part_001 it is at
    loc,                           \* of each goroutine: the locals of the call it is in
    committed                      \* the table that the Mounts and Umounts that have
                                   \* returned make, each taken as one step

vars == <<routes, crossFilesystemRenameCallback, clock, op, args, ret, calls, pre, mark,
          mtx, pc, loc, committed>>

\* what the calls of one goroutine at a time leave alone
conc == <<mtx, pc, loc, committed>>

\* what the steps of concurrent goroutines leave alone
seq == <<crossFilesystemRenameCallback, clock, op, args, ret, calls, pre, mark>>

----------------------------------------------------------------------------
(* Bounds of the model *)

\* time.Now() takes the values 1..MaxClock (0 is the zero time.Time)
MaxClock == 2

----------------------------------------------------------------------------
(* Strings *)

\* the byte value of a character (the order sort.Strings compares by)
Byte(c) ==
    CASE c = "." -> 46
      [] c = "/" -> 47
      [] c = "a" -> 97
      [] c = "b" -> 98
      [] c = "c" -> 99
      [] c = "e" -> 101
      [] c = "t" -> 116
      [] c = "v" -> 118
      [] c = "x" -> 120

RECURSIVE StrLess(_, _)
\* s < t on Go strings: byte-wise lexicographic
StrLess(s, t) ==
    IF t = <<>> THEN FALSE
    ELSE IF s = <<>> THEN TRUE
    ELSE IF Byte(Head(s)) # Byte(Head(t)) THEN Byte(Head(s)) < Byte(Head(t))
    ELSE StrLess(Tail(s), Tail(t))

RECURSIVE SplitFrom(_, _)
SplitFrom(s, cur) ==
    IF s = <<>> THEN <<cur>>
    ELSE IF Head(s) = "/" THEN <<cur>> \o SplitFrom(Tail(s), <<>>)
    ELSE SplitFrom(Tail(s), Append(cur, Head(s)))

\* strings.Split(s, "/"): never empty, Split("") = [""]
Split(s) == SplitFrom(s, <<>>)

RECURSIVE Join(_)
\* strings.Join(segs, "/")
Join(segs) ==
    IF segs = <<>> THEN <<>>
    ELSE IF Len(segs) = 1 THEN segs[1]
    ELSE segs[1] \o <<"/">> \o Join(Tail(segs))

RECURSIVE TrimRight(_)
\* strings.TrimRight(s, "/")
TrimRight(s) ==
    IF s # <<>> /\ s[Len(s)] = "/" THEN TrimRight(SubSeq(s, 1, Len(s) - 1)) ELSE s

RECURSIVE CleanElems(_, _, _)
\* path.Clean's pass over the elements of a path: empty and "." elements are
\* dropped, ".." removes the element before it, is dropped at the root of a
\* rooted path and is kept at the start of a relative one
CleanElems(elems, out, rooted) ==
    IF elems = <<>> THEN out
    ELSE LET e == Head(elems)
             rest == Tail(elems)
         IN  IF e = <<>> \/ e = <<".">> THEN CleanElems(rest, out, rooted)
             ELSE IF e = <<".", ".">>
                  THEN IF out # <<>> /\ out[Len(out)] # <<".", ".">>
                       THEN CleanElems(rest, SubSeq(out, 1, Len(out) - 1), rooted)
                       ELSE IF rooted THEN CleanElems(rest, out, rooted)
                       ELSE CleanElems(rest, Append(out, e), rooted)
             ELSE CleanElems(rest, Append(out, e), rooted)

\* path.Clean(p)
Clean(p) ==
    LET rooted == p # <<>> /\ p[1] = "/"
        body == Join(CleanElems(Split(p), <<>>, rooted))
        r == IF rooted THEN <<"/">> \o body ELSE body
    IN  IF r = <<>> THEN <<".">> ELSE r

\* cleanPath(p)
cleanPath(p) ==
    LET q == TrimRight(Clean(p))
    IN  IF q = <<".">> THEN q ELSE <<>>

----------------------------------------------------------------------------
(* The paths the calls are made with *)

P_empty == <<>>
P_root  == <<"/">>
P_dot   == <<".">>
P_t     == <<"/", "t">>
P_ta    == <<"/", "t", "/", "a">>
P_tb    == <<"/", "t", "/", "b">>
P_v     == <<"/", "v">>
P_ve    == <<"/", "v", "/", "e">>
P_abc   == <<"a", "/", "b", "/", "c">>
P_a     == <<"a">>

MountPaths   == {P_root, P_dot, P_t, P_ve, P_abc}
UmountPaths  == {P_root, P_dot, P_t, P_v, P_abc}
StatPaths    == {P_empty, P_dot, P_ta, P_v}
RenamePaths  == {P_dot, P_ta, P_tb}
ReadDirPaths == {P_root, P_dot, P_v, P_a}

----------------------------------------------------------------------------
(* Filesystems *)

\* the billy.Basic values given to New and Mount: "A" is the root backend,
\* "B" another backend, "E" is emptyfs.New()
RootBackend == "A"
MountBackends == {"B", "E"}

\* a nil billy.Filesystem
NoFS == [b |-> "nil", id |-> 0, ctime |-> 0]

\* the ids of the polyfill wrappers the table holds
LiveIds(r) == {r[n].fs.id : n \in DOMAIN r}

\* polyfill.New(b): a wrapper that is no wrapper the table holds
\* (b.ctime is the time emptyfs.New() was called at)
polyfillNew(r, b) ==
    [b |-> b.b, ctime |-> b.ctime,
     id |-> CHOOSE i \in 0..Cardinality(DOMAIN r) + 1 :
                /\ i \notin LiveIds(r) \cup {0}
                /\ \A j \in 1..(i - 1) : j \in LiveIds(r)]

\* emptyfs.New()
emptyfsNew(now) == [b |-> "E", ctime |-> now]

\* a billy.Basic that is not an emptyfs
Backend(b) == [b |-> b, ctime |-> 0]

----------------------------------------------------------------------------
(* The mount table *)

\* the node at the first i segments of sp
Prefix(sp, i) == SubSeq(sp, 1, i)

\* len(n.routes) > 0 is Children(r, n) # {}
Children(r, n) ==
    {m \in DOMAIN r : Len(m) = Len(n) + 1 /\ Prefix(m, Len(n)) = n}

\* sr.routes[seg] = &subRoute{...}
AddNode(r, n, v) == [m \in DOMAIN r \cup {n} |-> IF m = n THEN v ELSE r[m]]

\* delete(parent.routes, seg)
DeleteNode(r, n) == [m \in DOMAIN r \ {n} |-> r[m]]

RECURSIVE MountWalk(_, _, _, _, _)
\* the loop of Mount from index i (0-based), then the binding of the last node
MountWalk(r, sp, i, now, fsv) ==
    IF i >= Len(sp) THEN [r EXCEPT ![sp].fs = fsv]
    ELSE LET n == Prefix(sp, i + 1)
             r1 == IF n \in DOMAIN r THEN r ELSE AddNode(r, n, [fs |-> NoFS, mtime |-> 0])
         IN  MountWalk([r1 EXCEPT ![n].mtime = now], sp, i + 1, now, fsv)

\* Router.routes after Mount(p, b)
MountTable(r, p, b, now) ==
    MountWalk(r, Split(cleanPath(p)), 0, now, polyfillNew(r, b))

\* Umount's first loop finds every segment
UmountFinds(r, sp) == \A i \in 1..Len(sp) : Prefix(sp, i) \in DOMAIN r

\* Umount's second loop, deleting nothing
UmountPrune_keeps(r, sp, i, now) == r

RECURSIVE UmountPrune(_, _, _, _)
\* Umount's second loop from index i down
UmountPrune(r, sp, i, now) ==
    IF i <= 0 THEN r
    ELSE LET n == Prefix(sp, i)
         IN  IF Children(r, n) # {} \/ r[n].fs # NoFS THEN r
             ELSE UmountPrune([DeleteNode(r, n) EXCEPT ![Prefix(sp, i - 1)].mtime = now],
                              sp, i - 1, now)

\* Umount taking the empty path for the root node: no segment to walk
UmountTable_clearsRoot(r, p, now) ==
    LET sp == IF cleanPath(p) = <<>> THEN <<>> ELSE Split(cleanPath(p))
    IN  UmountPrune([r EXCEPT ![sp].fs = NoFS], sp, Len(sp), now)

\* Router.routes after an Umount(p) that does not panic
UmountTable(r, p, now) ==
    LET sp == Split(cleanPath(p))
    IN  UmountPrune([r EXCEPT ![sp].fs = NoFS], sp, Len(sp), now)

RECURSIVE resolveWalk(_, _, _, _)
\* the loop of resolvePathWithMount from index i (0-based): the last lastMount
resolveWalk(r, sp, i, lastMount) ==
    IF i >= Len(sp) \/ Prefix(sp, i + 1) \notin DOMAIN r THEN lastMount
    ELSE resolveWalk(r, sp, i + 1,
                     IF r[Prefix(sp, i + 1)].fs # NoFS THEN i ELSE lastMount)

\* resolvePathWithMount(p): the backend-relative path, the mount point, the backend
resolvePathWithMount(r, p) ==
    LET sp == Split(cleanPath(p))
        lastMount == resolveWalk(r, sp, 0, 0)
    IN  [sub   |-> Join(SubSeq(sp, lastMount + 1, Len(sp))),
         mount |-> Join(SubSeq(sp, 1, lastMount)),
         fs    |-> r[<<>>].fs]

\* resolvePath(p)
resolvePath(r, p) ==
    LET x == resolvePathWithMount(r, p) IN [sub |-> x.sub, fs |-> x.fs]

----------------------------------------------------------------------------
(* What a call returns *)

NoRet == [err |-> "nil", sub |-> <<>>, mount |-> <<>>, fs |-> NoFS,
          merged |-> FALSE, entries |-> <<>>]

\* the errors a backend other than emptyfs may return from a call
BackendErrs == {"nil", "EIO"}

\* a call of method m on filesystem f (of the callback: with filesystems f
\* and f2) with the paths a, the error it returned and the entries it listed
Call(m, f, f2, a, e, l) ==
    [method |-> m, fs |-> f, fs2 |-> f2, args |-> a, err |-> e, entries |-> l]

----------------------------------------------------------------------------
(* The calls *)
\* op, args, ret, calls, pre and mark record the last call: no call reads them.
\* mark.stage is "mounted" after a Mount, "umounted" or "listed" after the
\* Umount or ReadDir that follows a Mount at once, and "none" otherwise.
\* mark.prev is the path of the Mount made right before the Mount that mark
\* records, and NoPath when the call before it was no Mount.
NoPath == <<"none">>
NoMark == [stage |-> "none", path |-> <<>>, table |-> <<>>, prev |-> NoPath]

\* the goroutines that call the router at the same time
Procs == {"g1", "g2"}

\* the locals of a goroutine that is in no call: the call and its path, sp, i,
\* lastMount, the billy.Basic to mount, the filesystem and the path resolved,
\* routeCopy (of each child: whether its subRoute has left the table, and the
\* fields it had then), out, the child at hand; and, recording what the call
\* saw: the children when it copied them and the fields of the children that
\* the merge read
Idle ==
    [op |-> "none", p |-> <<>>, sp |-> <<>>, i |-> 0, lastMount |-> 0,
     b |-> [b |-> "nil", ctime |-> 0], fs |-> NoFS, sub |-> <<>>,
     routeCopy |-> <<>>, out |-> <<>>, cur |-> <<>>,
     snap |-> <<>>, used |-> <<>>]

\* New(root)
Init ==
    /\ clock = 1
    /\ routes = (<<>> :> [fs |-> polyfillNew(<<>>, Backend(RootBackend)), mtime |-> clock])
    /\ crossFilesystemRenameCallback = "crossFilesystemRenameNotSupported"
    /\ op = "New"
    /\ args = <<>>
    /\ ret = NoRet
    /\ calls = <<>>
    /\ pre = routes
    /\ mark = NoMark
    /\ mtx = [w |-> "none", r |-> {}]
    /\ pc = [g \in Procs |-> "idle"]
    /\ loc = [g \in Procs |-> Idle]
    /\ committed = routes

\* time passes
Tick ==
    /\ clock < MaxClock
    /\ clock' = clock + 1
    /\ UNCHANGED <<routes, crossFilesystemRenameCallback, op, args, ret, calls, pre, mark>>
    /\ UNCHANGED conc

\* Router.Mount(p, b)
Mount ==
    \E p \in MountPaths, b \in MountBackends :
        /\ routes' = MountTable(routes, p,
                                 IF b = "E" THEN emptyfsNew(clock) ELSE Backend(b), clock)
        /\ op' = "Mount"
        /\ args' = <<p>>
        /\ ret' = NoRet
        /\ calls' = <<>>
        /\ pre' = routes
        /\ mark' = [stage |-> "mounted", path |-> p, table |-> routes,
                    prev |-> IF op = "Mount" THEN args[1] ELSE NoPath]
        /\ UNCHANGED <<crossFilesystemRenameCallback, clock>>
        /\ UNCHANGED conc

\* Router.Umount(p): panics, before it has changed the table, unless every
\* segment is found
Umount ==
    \E p \in UmountPaths :
        /\ IF UmountFinds(routes, Split(cleanPath(p)))
           THEN /\ routes' = UmountTable(routes, p, clock)
                /\ ret' = NoRet
           ELSE /\ routes' = routes
                /\ ret' = [NoRet EXCEPT !.err = "panic"]
        /\ op' = "Umount"
        /\ args' = <<p>>
        /\ calls' = <<>>
        /\ pre' = routes
        /\ mark' = IF mark.stage = "mounted" THEN [mark EXCEPT !.stage = "umounted"] ELSE NoMark
        /\ UNCHANGED <<crossFilesystemRenameCallback, clock>>
        /\ UNCHANGED conc

\* Router.SetCrossFilesystemRenameCallback(f)
SetCrossFilesystemRenameCallback ==
    /\ crossFilesystemRenameCallback' = "custom"
    /\ op' = "SetCrossFilesystemRenameCallback"
    /\ args' = <<>>
    /\ ret' = NoRet
    /\ calls' = <<>>
    /\ pre' = routes
    /\ mark' = NoMark
    /\ UNCHANGED <<routes, clock>>
    /\ UNCHANGED conc

\* Router.Stat(p): resolve, then delegate
Stat ==
    \E p \in StatPaths, e \in BackendErrs :
        LET x == resolvePath(routes, p)
        IN  /\ op' = "Stat"
            /\ args' = <<p>>
            /\ ret' = [NoRet EXCEPT !.err = e, !.sub = x.sub, !.fs = x.fs,
                                    !.mount = resolvePathWithMount(routes, p).mount]
            /\ calls' = <<Call("Stat", x.fs, NoFS, <<x.sub>>, e, <<>>)>>
            /\ pre' = routes
            /\ mark' = NoMark
            /\ UNCHANGED <<routes, crossFilesystemRenameCallback, clock>>
            /\ UNCHANGED conc

\* Router.Rename(from, to)
Rename ==
    \E from \in RenamePaths, to \in RenamePaths, e \in BackendErrs :
        LET f == resolvePathWithMount(routes, from)
            t == resolvePathWithMount(routes, to)
        IN  /\ IF f.fs = t.fs /\ f.mount = t.mount
               THEN /\ calls' = <<Call("Rename", f.fs, NoFS, <<f.sub, t.sub>>, e, <<>>)>>
                    /\ ret' = [NoRet EXCEPT !.err = e]
               ELSE LET r == IF crossFilesystemRenameCallback = "custom"
                             THEN e ELSE "ErrInvalid"
                    IN  /\ calls' = <<Call(crossFilesystemRenameCallback, f.fs, t.fs,
                                           <<f.sub, t.sub>>, r, <<>>)>>
                        /\ ret' = [NoRet EXCEPT !.err = r]
            /\ op' = "Rename"
            /\ args' = <<from, to>>
            /\ pre' = routes
            /\ mark' = NoMark
            /\ UNCHANGED <<routes, crossFilesystemRenameCallback, clock>>
            /\ UNCHANGED conc

----------------------------------------------------------------------------
(* Directory listings *)

\* an os.FileInfo: what Name(), IsDir(), Size(), Mode().Perm() and ModTime()
\* report, the type it is a value of, and the filesystem it came from
FileInfo(name, isDir, size, perm, mtime, type, f) ==
    [name |-> name, isDir |-> isDir, size |-> size, perm |-> perm,
     mtime |-> mtime, type |-> type, fs |-> f]

\* virtualDir{mp, ro.mtime}: size 4096, mode 0755 | os.ModeDir
virtualDir(name, mtime) == FileInfo(name, TRUE, 4096, 493, mtime, "virtualDir", NoFS)

\* emptyfs's rootDir{f.ctime}: name "", size 4096, mode 0555 | os.ModeDir
rootDir(f) == FileInfo(<<>>, TRUE, 4096, 365, f.ctime, "rootDir", f)

\* emptyfs.Filesystem.Stat(p)
emptyfsStat(f, p) ==
    IF p \in {<<"/">>, <<>>, <<".">>}
    THEN [err |-> "nil", info |-> rootDir(f)]
    ELSE [err |-> "ErrNotExist", info |-> rootDir(f)]

\* an entry of another backend's own listing
Real(name, isDir) == FileInfo(name, isDir, 0, 0, 0, "real", NoFS)

\* what the ReadDir of a backend that is not an emptyfs may return: a list
\* sorted by name, as billy.Dir asks of a backend
BackendListings ==
    { <<>>,
      <<Real(<<".">>, TRUE)>>,
      <<Real(<<"a">>, TRUE), Real(<<"v">>, FALSE)>> }

BackendReadDir ==
    {[err |-> "nil", entries |-> l] : l \in BackendListings}
        \cup {[err |-> e, entries |-> <<>>] : e \in {"ErrNotExist", "EIO"}}

\* f.Stat("/") of a mounted filesystem; e is what a backend that is not an
\* emptyfs answers
StatRoot(f, e) ==
    IF f.b = "E" THEN emptyfsStat(f, <<"/">>)
    ELSE [err |-> e, info |-> FileInfo(<<"/">>, TRUE, 0, 0, 0, "rootStat", f)]

RECURSIVE readDirWalk(_, _, _)
\* the node ReadDir's loop ends at
readDirWalk(r, sp, i) ==
    IF i >= Len(sp) \/ Prefix(sp, i + 1) \notin DOMAIN r THEN Prefix(sp, i)
    ELSE readDirWalk(r, sp, i + 1)

\* the map key of a child node: the last segment of its path
Seg(n) == n[Len(n)]

\* out[k] = v
Put(out, k, v) == [x \in DOMAIN out \cup {k} |-> IF x = k THEN v ELSE out[x]]

RECURSIVE putEntries(_, _)
\* for _, e := range entries { out[e.Name()] = e }
putEntries(out, entries) ==
    IF entries = <<>> THEN out
    ELSE putEntries(Put(out, Head(entries).name, Head(entries)), Tail(entries))

\* the body of the loop over routeCopy, with the rule of a child without a
\* backend applied to every child: a real directory of its name is kept
mergeChild_keepsReal(r, m, n, e) ==
    IF Seg(n) \in DOMAIN m.out /\ m.out[Seg(n)].isDir
    THEN m
    ELSE [m EXCEPT !.out = Put(m.out, Seg(n), virtualDir(Seg(n), r[n].mtime))]

\* the body of the loop over routeCopy for child n: the map after it, the
\* error it returns with, the call it makes
mergeChild(r, m, n, e) ==
    IF r[n].fs = NoFS
    THEN IF Seg(n) \in DOMAIN m.out /\ m.out[Seg(n)].isDir
         THEN m
         ELSE [m EXCEPT !.out = Put(m.out, Seg(n), virtualDir(Seg(n), r[n].mtime))]
    ELSE LET st == StatRoot(r[n].fs, e)
         IN  [out |-> Put(m.out, Seg(n), st.info),
              err |-> st.err,
              calls |-> Append(m.calls,
                               Call("Stat", r[n].fs, NoFS, <<<<"/">>>>, st.err, <<>>))]

RECURSIVE mergeLoop(_, _, _, _)
\* the loop over routeCopy in the order the map is ranged over, up to the
\* first error
mergeLoop(r, m, order, st) ==
    IF order = <<>> \/ m.err # "nil" THEN m
    ELSE mergeLoop(r, mergeChild(r, m, Head(order), st[Head(order)]), Tail(order), st)

RECURSIVE sortStrings(_)
\* sort.Strings(names)
sortStrings(S) ==
    IF S = {} THEN <<>>
    ELSE LET least == CHOOSE x \in S : \A y \in S \ {x} : StrLess(x, y)
         IN  <<least>> \o sortStrings(S \ {least})

\* the orders a map with the keys S may be ranged over in
Orders(S) ==
    {o \in [1..Cardinality(S) -> S] : \A i, j \in 1..Cardinality(S) : o[i] = o[j] => i = j}

\* what the root stats of the children kids may answer: an emptyfs never fails
StatErrs(r, kids) ==
    {st \in [kids -> BackendErrs] : \A n \in kids : r[n].fs.b = "E" => st[n] = "nil"}

\* Router.ReadDir(p)
ReadDir ==
    \E p \in ReadDirPaths, l \in BackendReadDir :
        LET x == resolvePath(routes, p)
            sr == readDirWalk(routes, Split(p), 0)
            kids == Children(routes, sr)
            first == Call("ReadDir", x.fs, NoFS, <<x.sub>>, l.err, l.entries)
        IN  /\ IF kids = {}
               THEN /\ ret' = [NoRet EXCEPT !.err = l.err, !.entries = l.entries,
                                            !.sub = x.sub, !.fs = x.fs]
                    /\ calls' = <<first>>
               ELSE IF l.err \notin {"nil", "ErrNotExist"}
               THEN /\ ret' = [NoRet EXCEPT !.err = l.err, !.merged = TRUE,
                                            !.sub = x.sub, !.fs = x.fs]
                    /\ calls' = <<first>>
               ELSE \E order \in Orders(kids), st \in StatErrs(routes, kids) :
                        LET m == mergeLoop(routes,
                                           [out |-> putEntries(<<>>, l.entries),
                                            err |-> "nil", calls |-> <<first>>],
                                           order, st)
                            names == sortStrings(DOMAIN m.out)
                        IN  /\ ret' = [NoRet EXCEPT
                                         !.err = m.err, !.merged = TRUE,
                                         !.sub = x.sub, !.fs = x.fs,
                                         !.entries = IF m.err = "nil"
                                                     THEN [i \in DOMAIN names |-> m.out[names[i]]]
                                                     ELSE <<>>]
                            /\ calls' = m.calls
            /\ op' = "ReadDir"
            /\ args' = <<p>>
            /\ pre' = routes
            /\ mark' = IF mark.stage = "mounted"
                       THEN [mark EXCEPT !.stage = "listed", !.prev = NoPath]
                       ELSE NoMark
            /\ UNCHANGED <<routes, crossFilesystemRenameCallback, clock>>
            /\ UNCHANGED conc

Next ==
    \/ Tick
    \/ Mount
    \/ Umount
    \/ SetCrossFilesystemRenameCallback
    \/ Stat
    \/ Rename
    \/ ReadDir

Spec == Init /\ [][Next]_vars

\* the router as callers use it who only mount and unmount, while time passes
NextMount == Tick \/ Mount \/ Umount
SpecMount == Init /\ [][NextMount]_vars

\* ... who mount, unmount and call Stat
NextResolve == Mount \/ Umount \/ Stat
SpecResolve == Init /\ [][NextResolve]_vars

\* ... who mount, unmount, set the rename callback and rename
NextRename == Mount \/ Umount \/ SetCrossFilesystemRenameCallback \/ Rename
SpecRename == Init /\ [][NextRename]_vars

\* ... who mount, unmount and list directories
NextReadDir == Mount \/ Umount \/ ReadDir
SpecReadDir == Init /\ [][NextReadDir]_vars

----------------------------------------------------------------------------
(* Concurrent callers: the calls step by step, between the lines where *)
(* they lock and unlock Router.mtx                                      *)

ConcMountPaths   == {P_dot, P_t}
ConcUmountPaths  == {P_dot, P_t}
ConcStatPaths    == {P_ta}
ConcReadDirPaths == {P_a}

\* the billy.Basic that concurrent callers mount
ConcBackend == "B"

\* what the backend's ReadDir may return to a concurrent caller
ConcReadDir ==
    {[err |-> "nil", entries |-> <<>>],
     [err |-> "nil", entries |-> <<Real(<<".">>, TRUE)>>],
     [err |-> "EIO", entries |-> <<>>]}

\* goroutine self goes to line l with the locals v
Goto(self, l, v) ==
    /\ pc' = [pc EXCEPT ![self] = l]
    /\ loc' = [loc EXCEPT ![self] = v]

\* goroutine self returns from its call
Return(self) == Goto(self, "idle", Idle)

\* a call of Mount that goes on without r.mtx.Lock()
CallMount_noLock(self) ==
    /\ pc[self] = "idle"
    /\ \E p \in ConcMountPaths :
          Goto(self, "M62", [Idle EXCEPT !.op = "Mount", !.p = p,
                                         !.sp = Split(cleanPath(p)),
                                         !.b = Backend(ConcBackend)])
    /\ UNCHANGED <<routes, mtx, committed>>
    /\ UNCHANGED seq

\* Mount(p, b), lines 56-57
CallMount(self) ==
    /\ pc[self] = "idle"
    /\ \E p \in ConcMountPaths :
          Goto(self, "Lock", [Idle EXCEPT !.op = "Mount", !.p = p,
                                          !.sp = Split(cleanPath(p)),
                                          !.b = Backend(ConcBackend)])
    /\ UNCHANGED <<routes, mtx, committed>>
    /\ UNCHANGED seq

\* Umount(p), lines 77-78
CallUmount(self) ==
    /\ pc[self] = "idle"
    /\ \E p \in ConcUmountPaths :
          Goto(self, "Lock", [Idle EXCEPT !.op = "Umount", !.p = p,
                                          !.sp = Split(cleanPath(p))])
    /\ UNCHANGED <<routes, mtx, committed>>
    /\ UNCHANGED seq

\* r.mtx.Lock(), lines 58 and 79: the goroutine is the writer once no other
\* is; from then on RLock waits
Lock(self) ==
    /\ pc[self] = "Lock"
    /\ mtx.w = "none"
    /\ mtx' = [mtx EXCEPT !.w = self]
    /\ pc' = [pc EXCEPT ![self] = "LockWait"]
    /\ UNCHANGED <<routes, loc, committed>>
    /\ UNCHANGED seq

\* r.mtx.Lock() returns when the readers have left
LockWait(self) ==
    /\ pc[self] = "LockWait"
    /\ mtx.r = {}
    /\ pc' = [pc EXCEPT ![self] = IF loc[self].op = "Mount" THEN "M62" ELSE "U83"]
    /\ UNCHANGED <<routes, mtx, loc, committed>>
    /\ UNCHANGED seq

\* one turn of Mount's loop, lines 62-72
MountStep(self) ==
    /\ pc[self] = "M62"
    /\ loc[self].i < Len(loc[self].sp)
    /\ LET n == Prefix(loc[self].sp, loc[self].i + 1)
           r1 == IF n \in DOMAIN routes THEN routes
                 ELSE AddNode(routes, n, [fs |-> NoFS, mtime |-> 0])
       IN  routes' = [r1 EXCEPT ![n].mtime = clock]
    /\ loc' = [loc EXCEPT ![self].i = @ + 1]
    /\ UNCHANGED <<mtx, pc, committed>>
    /\ UNCHANGED seq

\* sr.fs = polyfill.New(fs), line 73
MountBind(self) ==
    /\ pc[self] = "M62"
    /\ loc[self].i >= Len(loc[self].sp)
    /\ routes' = [routes EXCEPT ![loc[self].sp].fs = polyfillNew(routes, loc[self].b)]
    /\ pc' = [pc EXCEPT ![self] = "Unlock"]
    /\ UNCHANGED <<mtx, loc, committed>>
    /\ UNCHANGED seq

\* the deferred r.mtx.Unlock() of Mount and Umount, and the return
Unlock(self) ==
    /\ pc[self] = "Unlock"
    /\ mtx' = [mtx EXCEPT !.w = "none"]
    /\ committed' = IF loc[self].op = "Mount"
                    THEN MountTable(committed, loc[self].p, loc[self].b, clock)
                    ELSE UmountTable(committed, loc[self].p, clock)
    /\ Return(self)
    /\ UNCHANGED routes
    /\ UNCHANGED seq

\* Umount's first loop, lines 83-89: on to line 90, or the panic, which runs
\* the deferred Unlock
UmountFind(self) ==
    /\ pc[self] = "U83"
    /\ IF UmountFinds(routes, loc[self].sp)
       THEN /\ Goto(self, "U90", loc[self])
            /\ UNCHANGED <<mtx, committed>>
       ELSE /\ mtx' = [mtx EXCEPT !.w = "none"]
            /\ Return(self)
            /\ UNCHANGED committed
    /\ UNCHANGED routes
    /\ UNCHANGED seq

\* parents[len(sp)].fs = nil, line 90
UmountClear(self) ==
    /\ pc[self] = "U90"
    /\ routes' = [routes EXCEPT ![loc[self].sp].fs = NoFS]
    /\ Goto(self, "U92", [loc[self] EXCEPT !.i = Len(loc[self].sp)])
    /\ UNCHANGED <<mtx, committed>>
    /\ UNCHANGED seq

\* the routeCopy of a goroutine once node n has left the table: the subRoute
\* it points to keeps the fields it had
Detached(copy, n) ==
    [m \in DOMAIN copy |->
        IF m = n /\ ~copy[m].gone
        THEN [gone |-> TRUE, fs |-> routes[n].fs, mtime |-> routes[n].mtime]
        ELSE copy[m]]

\* one turn of Umount's second loop that deletes, lines 92-98
UmountDelete(self) ==
    /\ pc[self] = "U92"
    /\ loc[self].i > 0
    /\ LET n == Prefix(loc[self].sp, loc[self].i)
       IN  /\ Children(routes, n) = {}
           /\ routes[n].fs = NoFS
           /\ routes' = [DeleteNode(routes, n)
                            EXCEPT ![Prefix(loc[self].sp, loc[self].i - 1)].mtime = clock]
           /\ loc' = [g \in Procs |->
                        [loc[g] EXCEPT !.i = IF g = self THEN @ - 1 ELSE @,
                                       !.routeCopy = Detached(@, n)]]
    /\ UNCHANGED <<mtx, pc, committed>>
    /\ UNCHANGED seq

\* the end of Umount's second loop: the break of line 94, or i = 0
UmountDone(self) ==
    /\ pc[self] = "U92"
    /\ IF loc[self].i = 0 THEN TRUE
       ELSE LET n == Prefix(loc[self].sp, loc[self].i)
            IN  Children(routes, n) # {} \/ routes[n].fs # NoFS
    /\ pc' = [pc EXCEPT ![self] = "Unlock"]
    /\ UNCHANGED <<routes, mtx, loc, committed>>
    /\ UNCHANGED seq

\* Stat(p): resolvePath(p), lines 117-118
CallStat(self) ==
    /\ pc[self] = "idle"
    /\ \E p \in ConcStatPaths :
          Goto(self, "R119", [Idle EXCEPT !.op = "Stat", !.p = p,
                                          !.sp = Split(cleanPath(p))])
    /\ UNCHANGED <<routes, mtx, committed>>
    /\ UNCHANGED seq

\* ReadDir(p): resolvePath(p), lines 189 and 117-118
CallReadDir(self) ==
    /\ pc[self] = "idle"
    /\ \E p \in ConcReadDirPaths :
          Goto(self, "R119", [Idle EXCEPT !.op = "ReadDir", !.p = p,
                                          !.sp = Split(cleanPath(p))])
    /\ UNCHANGED <<routes, mtx, committed>>
    /\ UNCHANGED seq

\* Root(), line 334
CallRoot(self) ==
    /\ pc[self] = "idle"
    /\ Goto(self, "T335", [Idle EXCEPT !.op = "Root"])
    /\ UNCHANGED <<routes, mtx, committed>>
    /\ UNCHANGED seq

\* r.mtx.RLock() and lines 121-123 of resolvePathWithMount
ResolveLock(self) ==
    /\ pc[self] = "R119"
    /\ mtx.w = "none"
    /\ mtx' = [mtx EXCEPT !.r = @ \cup {self}]
    /\ Goto(self, "R124", [loc[self] EXCEPT !.i = 0, !.lastMount = 0,
                                            !.fs = routes[<<>>].fs])
    /\ UNCHANGED <<routes, committed>>
    /\ UNCHANGED seq

\* one turn of the loop of resolvePathWithMount, lines 124-133
ResolveStep(self) ==
    /\ pc[self] = "R124"
    /\ loc[self].i < Len(loc[self].sp)
    /\ LET n == Prefix(loc[self].sp, loc[self].i + 1)
       IN  /\ n \in DOMAIN routes
           /\ loc' = [loc EXCEPT ![self].i = @ + 1,
                                 ![self].lastMount =
                                     IF routes[n].fs # NoFS THEN loc[self].i ELSE @]
    /\ UNCHANGED <<routes, mtx, pc, committed>>
    /\ UNCHANGED seq

\* the end of the loop, line 134 and the deferred RUnlock: back in the caller,
\* before its backend call (Stat) or at line 190 (ReadDir)
ResolveReturn(self) ==
    /\ pc[self] = "R124"
    /\ IF loc[self].i >= Len(loc[self].sp) THEN TRUE
       ELSE Prefix(loc[self].sp, loc[self].i + 1) \notin DOMAIN routes
    /\ mtx' = [mtx EXCEPT !.r = @ \ {self}]
    /\ Goto(self, IF loc[self].op = "ReadDir" THEN "D191" ELSE "B",
            [loc[self] EXCEPT
                !.sub = Join(SubSeq(loc[self].sp, loc[self].lastMount + 1,
                                    Len(loc[self].sp))),
                !.sp = <<>>, !.i = 0, !.lastMount = 0])
    /\ UNCHANGED <<routes, committed>>
    /\ UNCHANGED seq

\* r.mtx.RLock() of Root, line 335
RootLock(self) ==
    /\ pc[self] = "T335"
    /\ mtx.w = "none"
    /\ mtx' = [mtx EXCEPT !.r = @ \cup {self}]
    /\ pc' = [pc EXCEPT ![self] = "T336"]
    /\ UNCHANGED <<routes, loc, committed>>
    /\ UNCHANGED seq

\* root := r.routes.fs; r.mtx.RUnlock(), lines 336-337
RootRead(self) ==
    /\ pc[self] = "T336"
    /\ mtx' = [mtx EXCEPT !.r = @ \ {self}]
    /\ Goto(self, "B", [loc[self] EXCEPT !.fs = routes[<<>>].fs])
    /\ UNCHANGED <<routes, committed>>
    /\ UNCHANGED seq

\* the backend call of Stat (fs.Stat(sub)) or Root (root.Root()) returns; it
\* need not ever
BackendReturn(self) ==
    /\ pc[self] = "B"
    /\ Return(self)
    /\ UNCHANGED <<routes, mtx, committed>>
    /\ UNCHANGED seq

\* r.mtx.RLock() of ReadDir, line 191
ReadDirLock(self) ==
    /\ pc[self] = "D191"
    /\ mtx.w = "none"
    /\ mtx' = [mtx EXCEPT !.r = @ \cup {self}]
    /\ pc' = [pc EXCEPT ![self] = "D193"]
    /\ UNCHANGED <<routes, loc, committed>>
    /\ UNCHANGED seq

\* lines 192-208 with the RUnlock of line 201 left out
ReadDirCopy_keepsLock(self) ==
    /\ pc[self] = "D193"
    /\ LET kids == Children(routes, readDirWalk(routes, Split(loc[self].p), 0))
       IN  IF kids = {}
           THEN /\ Goto(self, "D202", loc[self])
                /\ UNCHANGED mtx
           ELSE /\ Goto(self, "D209",
                        [loc[self] EXCEPT
                            !.routeCopy = [n \in kids |->
                                             [gone |-> FALSE, fs |-> NoFS, mtime |-> 0]],
                            !.snap = [n \in kids |-> routes[n]]])
                /\ mtx' = [mtx EXCEPT !.r = @ \ {self}]
    /\ UNCHANGED <<routes, committed>>
    /\ UNCHANGED seq

\* ReadDir's walk, the test of line 200, the copy of the children and the
\* RUnlock, lines 192-208: on to the backend's ReadDir
ReadDirCopy(self) ==
    /\ pc[self] = "D193"
    /\ LET kids == Children(routes, readDirWalk(routes, Split(loc[self].p), 0))
       IN  IF kids = {}
           THEN Goto(self, "D202", loc[self])
           ELSE Goto(self, "D209",
                     [loc[self] EXCEPT
                         !.routeCopy = [n \in kids |->
                                          [gone |-> FALSE, fs |-> NoFS, mtime |-> 0]],
                         !.snap = [n \in kids |-> routes[n]]])
    /\ mtx' = [mtx EXCEPT !.r = @ \ {self}]
    /\ UNCHANGED <<routes, committed>>
    /\ UNCHANGED seq

\* return fs.ReadDir(sub), line 202: the call returns; it need not ever
ReadDirPass(self) ==
    /\ pc[self] = "D202"
    /\ Return(self)
    /\ UNCHANGED <<routes, mtx, committed>>
    /\ UNCHANGED seq

\* entries, err := fs.ReadDir(sub) and lines 210-219
ReadDirList(self) ==
    /\ pc[self] = "D209"
    /\ \E l \in ConcReadDir :
          IF l.err \notin {"nil", "ErrNotExist"}
          THEN Return(self)
          ELSE Goto(self, "D220", [loc[self] EXCEPT !.out = putEntries(<<>>, l.entries)])
    /\ UNCHANGED <<routes, mtx, committed>>
    /\ UNCHANGED seq

\* the subRoute that routeCopy has for child n, as it is now
Deref(self, n) ==
    IF loc[self].routeCopy[n].gone
    THEN [fs |-> loc[self].routeCopy[n].fs, mtime |-> loc[self].routeCopy[n].mtime]
    ELSE routes[n]

\* the next child of the loop over routeCopy and the test of line 221, with
\* lines 222-225 when ro.fs is nil
ReadDirTest(self) ==
    /\ pc[self] = "D220"
    /\ \E n \in DOMAIN loc[self].routeCopy \ DOMAIN loc[self].used :
          LET ro == Deref(self, n)
              out == loc[self].out
          IN  IF ro.fs = NoFS
              THEN Goto(self, "D220",
                        [loc[self] EXCEPT
                            !.used = Put(@, n, ro),
                            !.out = IF Seg(n) \in DOMAIN out /\ out[Seg(n)].isDir
                                    THEN out
                                    ELSE Put(out, Seg(n), virtualDir(Seg(n), ro.mtime))])
              ELSE Goto(self, "D227", [loc[self] EXCEPT !.cur = n])
    /\ UNCHANGED <<routes, mtx, committed>>
    /\ UNCHANGED seq

\* out[mp], err = ro.fs.Stat("/"), lines 227-230: ro.fs is read again, and
\* the call of a method of a nil interface panics
ReadDirStat(self) ==
    /\ pc[self] = "D227"
    /\ LET n == loc[self].cur
           ro == Deref(self, n)
       IN  IF ro.fs = NoFS
           THEN Goto(self, "panic", [loc[self] EXCEPT !.used = Put(@, n, ro)])
           ELSE \E e \in BackendErrs :
                   LET st == StatRoot(ro.fs, e)
                   IN  IF st.err # "nil"
                       THEN Return(self)
                       ELSE Goto(self, "D220",
                                 [loc[self] EXCEPT
                                     !.used = Put(@, n, ro),
                                     !.out = Put(@, Seg(n), st.info),
                                     !.cur = <<>>])
    /\ UNCHANGED <<routes, mtx, committed>>
    /\ UNCHANGED seq

\* lines 233-242: every child is merged, the listing is sorted and returned
ReadDirReturn(self) ==
    /\ pc[self] = "D220"
    /\ DOMAIN loc[self].routeCopy \subseteq DOMAIN loc[self].used
    /\ Return(self)
    /\ UNCHANGED <<routes, mtx, committed>>
    /\ UNCHANGED seq

\* goroutines that mount, unmount, resolve, list and ask for the root
NextConc ==
    \E self \in Procs :
        \/ CallMount(self)
        \/ CallUmount(self)
        \/ Lock(self)
        \/ LockWait(self)
        \/ MountStep(self)
        \/ MountBind(self)
        \/ Unlock(self)
        \/ UmountFind(self)
        \/ UmountClear(self)
        \/ UmountDelete(self)
        \/ UmountDone(self)
        \/ CallStat(self)
        \/ CallReadDir(self)
        \/ CallRoot(self)
        \/ ResolveLock(self)
        \/ ResolveStep(self)
        \/ ResolveReturn(self)
        \/ RootLock(self)
        \/ RootRead(self)
        \/ BackendReturn(self)
        \/ ReadDirLock(self)
        \/ ReadDirCopy(self)
        \/ ReadDirPass(self)
        \/ ReadDirList(self)
        \/ ReadDirTest(self)
        \/ ReadDirStat(self)
        \/ ReadDirReturn(self)

SpecConc == Init /\ [][NextConc]_vars

----------------------------------------------------------------------------
(* What the claims speak of *)

\* the segments the router walks for path p
Segments(p) == Split(cleanPath(p))

\* the number of segments of sp up to the deepest node of table r that lies on
\* sp and has a backend bound (0: the root)
DeepestMount(r, sp) ==
    LET bound == {i \in 0..Len(sp) :
                    Prefix(sp, i) \in DOMAIN r /\ r[Prefix(sp, i)].fs # NoFS}
    IN  CHOOSE i \in bound : \A j \in bound : j <= i

\* the node that owns path p in table r
MountNode(r, p) == Prefix(Segments(p), DeepestMount(r, Segments(p)))

\* the backend that owns path p in table r, its mount point and the path
\* relative to it
MountOf(r, p) ==
    LET sp == Segments(p)
        k == DeepestMount(r, sp)
    IN  [fs    |-> r[Prefix(sp, k)].fs,
         mount |-> Join(SubSeq(sp, 1, k)),
         sub   |-> Join(SubSeq(sp, k + 1, Len(sp)))]

\* the nodes of a table with the backend each has bound
Bindings(r) == [n \in DOMAIN r |-> r[n].fs]

\* the normal form of a path: cleaned, without a trailing separator, and
\* empty for the current directory
NormalForm(p) ==
    LET q == TrimRight(Clean(p)) IN IF q = <<".">> THEN <<>> ELSE q

\* the nodes along the segments sp
Along(sp) == {Prefix(sp, i) : i \in 1..Len(sp)}

----------------------------------------------------------------------------
(* C1: resolution returns the deepest bound backend *)

\* C1: every path resolves to the backend bound at the deepest node of the
\* mount table that lies on the path's segments and has a backend bound (the
\* root backend when there is none); nodes without a backend are no mount
\* boundaries.
C1_ResolvesToDeepestMount ==
    op = "Stat" => ret.fs = pre[MountNode(pre, args[1])].fs

----------------------------------------------------------------------------
(* C2: resolution splits the path at the mount point *)

\* C2: the mount-point path is the segments up to and including the deepest
\* bound node's, the backend-relative path the segments strictly after it, and
\* the two segment lists together are the segments of the path.
C2_SplitsAtDeepestMount ==
    op = "Stat" =>
        LET sp == Segments(args[1])
            k == DeepestMount(pre, sp)
        IN  /\ ret.mount = Join(SubSeq(sp, 1, k))
            /\ ret.sub = Join(SubSeq(sp, k + 1, Len(sp)))
            /\ SubSeq(sp, 1, k) \o SubSeq(sp, k + 1, Len(sp)) = sp

----------------------------------------------------------------------------
(* C3: the tree holds no garbage *)

\* C3: between calls, every node of the mount table but the root has a backend
\* bound or has a child.
C3_GarbageFree ==
    \A n \in DOMAIN routes :
        n # <<>> => routes[n].fs # NoFS \/ Children(routes, n) # {}

\* an Umount has returned and has deleted a node
C3_Witness ==
    /\ op = "Umount"
    /\ ret.err = "nil"
    /\ DOMAIN routes # DOMAIN pre

----------------------------------------------------------------------------
(* C4: Mount, then Umount of the same path, leaves the table as it was *)

\* C4: where no node exists along a path of several segments, Mount of the path
\* creates a node per segment, the last one bound and the others not, and an
\* Umount of the path right after leaves the nodes and bindings that were there
\* before the Mount.
C4_MountThenUmount ==
    /\ op = "Mount" =>
          LET sp == Split(NormalForm(args[1]))
          IN  Len(sp) >= 3 /\ Along(sp) \cap DOMAIN pre = {} =>
                 /\ Along(sp) \subseteq DOMAIN routes
                 /\ \A i \in 1..(Len(sp) - 1) : routes[Prefix(sp, i)].fs = NoFS
                 /\ routes[sp].fs # NoFS
    /\ op = "Umount" /\ mark.stage = "umounted" /\ args[1] = mark.path =>
          LET sp == Split(NormalForm(args[1]))
          IN  Len(sp) >= 3 /\ Along(sp) \cap DOMAIN mark.table = {} =>
                 /\ ret.err = "nil"
                 /\ Bindings(routes) = Bindings(mark.table)

----------------------------------------------------------------------------
(* C5: Umount of what is no mount point panics *)

\* the paths, in normal form, that Mount is ever called with
MountPoints == {NormalForm(q) : q \in MountPaths}

\* C5: Umount of a path that is no active mount point panics.  (Stated of the
\* paths that are never mounted: they are no mount point in any state.)
C5_UmountOfNoMountPanics ==
    op = "Umount" /\ NormalForm(args[1]) \notin MountPoints => ret.err = "panic"

----------------------------------------------------------------------------
(* C6: Rename within a mount is delegated, across mounts goes to the policy *)

\* C6: when both paths belong to the same backend and mount point, Rename calls
\* that backend's Rename with the two backend-relative paths and nothing else;
\* otherwise it calls the policy with both backends and both backend-relative
\* paths and nothing else.
C6_RenameDelegatesOrAsksPolicy ==
    op = "Rename" =>
        LET f == MountOf(pre, args[1])
            t == MountOf(pre, args[2])
        IN  IF f.fs = t.fs /\ f.mount = t.mount
            THEN calls = <<Call("Rename", f.fs, NoFS, <<f.sub, t.sub>>, ret.err, <<>>)>>
            ELSE calls = <<Call(crossFilesystemRenameCallback, f.fs, t.fs,
                                <<f.sub, t.sub>>, ret.err, <<>>)>>

----------------------------------------------------------------------------
(* C7: without a policy, Rename across mounts is not supported *)

\* C7: while the callback is the default one, a Rename between paths of two
\* different mounted backends fails as not supported and calls no backend.
C7_DefaultPolicyRefuses ==
    /\ op = "Rename"
    /\ crossFilesystemRenameCallback = "crossFilesystemRenameNotSupported"
    /\ MountNode(pre, args[1]) # <<>>
    /\ MountNode(pre, args[2]) # <<>>
    /\ MountOf(pre, args[1]).fs # MountOf(pre, args[2]).fs
    => /\ ret.err = "ErrInvalid"
       /\ \A i \in DOMAIN calls : calls[i].method = "crossFilesystemRenameNotSupported"

----------------------------------------------------------------------------
(* Listings *)

\* the children of the node that ReadDir merges
ListedChildren == Children(pre, readDirWalk(pre, Split(args[1]), 0))

\* the backend's own listing has an entry named name
ListsReal(name) == \E i \in DOMAIN calls[1].entries : calls[1].entries[i].name = name

\* the places of the entries of the returned listing that report name
Named(name) == {i \in DOMAIN ret.entries : ret.entries[i].name = name}

\* no root stat of a mounted backend has failed
StatsSucceed == \A i \in 2..Len(calls) : calls[i].err = "nil"

\* the children among them whose entry the source decides: those without a
\* backend and those whose backend is an emptyfs
SourceListedChildren == {n \in ListedChildren : pre[n].fs.b \in {"nil", "E"}}

----------------------------------------------------------------------------
(* C8: a directory that exists only above mount points lists them *)

\* C8: with a backend mounted at /v/e and a root backend that reports /v as
\* not existing, ReadDir(/v) returns, without error, exactly one entry, a
\* directory named e; and any listing of a directory that the backend reports
\* as not existing returns exactly one directory entry per child node, named
\* by the child's segment (stated of the children that are an emptyfs or have
\* no backend).
C8_VirtualDirectoryListsMounts ==
    /\ op = "ReadDir" /\ args = <<P_v>> /\ mark.stage = "listed" /\ mark.path = P_ve
          /\ calls[1].err = "ErrNotExist"
       => /\ ret.err = "nil"
          /\ Len(ret.entries) = 1
          /\ ret.entries[1].name = <<"e">>
          /\ ret.entries[1].isDir
    /\ op = "ReadDir" /\ ret.merged /\ calls[1].err = "ErrNotExist" /\ StatsSucceed
       => /\ ret.err = "nil"
          /\ Len(ret.entries) = Cardinality(ListedChildren)
          /\ \A n \in SourceListedChildren :
                \E i \in Named(Seg(n)) : ret.entries[i].isDir

----------------------------------------------------------------------------
(* C9: a mount point the backend does not list is listed as a directory *)

\* C9: when the listed node has a child X and the backend's listing has no
\* entry named X, the returned listing has exactly one entry named X, a
\* directory; for a child without a backend it is the synthetic entry with
\* the node's timestamp (stated of the children that are an emptyfs or have
\* no backend).
C9_UnlistedMountIsListed ==
    op = "ReadDir" /\ ret.merged /\ calls[1].err \in {"nil", "ErrNotExist"} /\ StatsSucceed
    => \A n \in SourceListedChildren :
          ~ListsReal(Seg(n)) =>
             /\ ret.err = "nil"
             /\ Cardinality(Named(Seg(n))) = 1
             /\ \A i \in Named(Seg(n)) :
                   /\ ret.entries[i].isDir
                   /\ pre[n].fs = NoFS =>
                         ret.entries[i] = virtualDir(Seg(n), pre[n].mtime)

----------------------------------------------------------------------------
(* C10: a mounted backend's root replaces the real entry of its name *)

\* the children of the listed node that have a backend bound and whose name
\* the backend's own listing has too
ShadowingMounts == {n \in ListedChildren : pre[n].fs # NoFS /\ ListsReal(Seg(n))}

\* C10: when the backend's listing has an entry named X and X is a child node
\* with a backend bound, the returned listing has the root stat of the mounted
\* backend for X, and has the backend's own entry named X nowhere.
C10_MountReplacesRealEntry ==
    op = "ReadDir" /\ ret.merged /\ ret.err = "nil"
    => \A n \in ShadowingMounts :
          /\ \E i \in DOMAIN ret.entries :
                ret.entries[i] = StatRoot(pre[n].fs, "nil").info
          /\ \A i \in DOMAIN ret.entries :
                ret.entries[i].type = "real" => ret.entries[i].name # Seg(n)

\* a listing was returned for a node with a mounted child whose name the
\* backend lists too
C10_Witness ==
    /\ op = "ReadDir"
    /\ ret.merged
    /\ ret.err = "nil"
    /\ ShadowingMounts # {}

----------------------------------------------------------------------------
(* C11: a real directory beats the synthetic entry of an intermediate node *)

\* the places of the entries of the backend's own listing that report name
RealNamed(name) ==
    {i \in DOMAIN calls[1].entries : calls[1].entries[i].name = name}

\* the last two calls were Mount(mp) and ReadDir(d), and the backend listed d
\* without an error
ListedAfterMount(mp, d) ==
    /\ op = "ReadDir"
    /\ mark.stage = "listed"
    /\ mark.path = mp
    /\ args = <<d>>
    /\ calls[1].err = "nil"
    /\ StatsSucceed

\* after Mount(mp), whose first segment x is then a node with a child and
\* without a backend (nothing is ever mounted at x itself), ReadDir of the
\* directory d that holds x returns one entry named x for the backend's own
\* entry named x: that entry itself when it is a directory, a synthetic
\* directory when it is not
RealDirectoryKept(mp, d, x) ==
    ListedAfterMount(mp, d) =>
        \A i \in RealNamed(x) :
            /\ ret.err = "nil"
            /\ Cardinality(Named(x)) = 1
            /\ \A j \in Named(x) :
                  IF calls[1].entries[i].isDir
                  THEN ret.entries[j] = calls[1].entries[i]
                  ELSE ret.entries[j].type = "virtualDir"

----------------------------------------------------------------------------
(* C12: listings are sorted by name *)

\* the names the entries report are in strictly ascending byte-wise order
Ascending(entries) ==
    \A i \in 1..(Len(entries) - 1) : StrLess(entries[i].name, entries[i + 1].name)

\* C12: every listing ReadDir returns, merged or passed through, is in
\* strictly ascending byte-wise order of the names its entries report, so no
\* two entries report the same name.  (Stated of the listings whose merged
\* children are an emptyfs or have no backend.)
C12_ListingsSorted ==
    op = "ReadDir" /\ ret.err = "nil" /\ SourceListedChildren = ListedChildren
    => Ascending(ret.entries)

----------------------------------------------------------------------------
(* C13: paths are addressed by their normal form *)

\* C13: the path a Mount, an Umount or a resolution walks is the normal form
\* of the path it was called with (cleaned, without a trailing separator,
\* empty for the current directory); so an Umount that follows a Mount
\* addresses the node of that Mount if and only if the two paths have the
\* same normal form.
C13_AddressedByNormalForm ==
    /\ op \in {"Mount", "Umount", "Stat"} => cleanPath(args[1]) = NormalForm(args[1])
    /\ op = "Umount" /\ mark.stage = "umounted" =>
          (Segments(args[1]) = Segments(mark.path)
              <=> NormalForm(args[1]) = NormalForm(mark.path))

----------------------------------------------------------------------------
(* C14: Mount on a mount point replaces its binding and nothing else *)

\* the nodes of a table with the billy.Basic each has bound (whatever the
\* polyfill wrapper around it)
Basics(r) == [n \in DOMAIN r |-> [b |-> r[n].fs.b, ctime |-> r[n].fs.ctime]]

\* the last call was a Mount of a path that had a backend bound, and only a
\* Mount of this very path can have bound it
Remounted ==
    /\ op = "Mount"
    /\ Segments(args[1]) \in DOMAIN pre
    /\ pre[Segments(args[1])].fs # NoFS
    /\ \A q \in MountPaths :
          Segments(q) = Segments(args[1]) => NormalForm(q) = NormalForm(args[1])

\* C14: Mount(p, fs) of a path that has a backend bound replaces that binding
\* only: afterwards p resolves to fs, the table has the nodes it had, and every
\* other node has the binding it had; when fs is the backend that was bound,
\* the nodes and their backends are as before the call.
C14_RemountReplacesBinding ==
    Remounted =>
        LET n == Segments(args[1])
        IN  /\ DOMAIN routes = DOMAIN pre
            /\ \A m \in DOMAIN pre \ {n} : routes[m].fs = pre[m].fs
            /\ resolvePath(routes, args[1]).fs = routes[n].fs
            /\ Basics(routes)[n] = Basics(pre)[n] => Basics(routes) = Basics(pre)

----------------------------------------------------------------------------
(* C15: the root node keeps the backend given to New *)

\* C15: in every state that Mount and Umount calls lead to, also calls with
\* the root path and with paths whose normal form is empty, the root node
\* exists and has the backend that New was given; so no path resolves to a
\* nil backend.
C15_RootKeepsItsBackend ==
    /\ <<>> \in DOMAIN routes
    /\ routes[<<>>].fs = polyfillNew(<<>>, Backend(RootBackend))
    /\ \A p \in MountPaths \cup UmountPaths \cup StatPaths :
          resolvePath(routes, p).fs # NoFS
    /\ op = "Stat" => ret.fs # NoFS

\* an Umount of the root path has returned
C15_Witness ==
    /\ op = "Umount"
    /\ args = <<P_root>>
    /\ ret.err = "nil"

----------------------------------------------------------------------------
(* C16: Umount of a mount point above other mounts *)

\* the node of path q lies beneath the node of path p
Beneath(q, p) ==
    LET sp == Split(NormalForm(p))
        sq == Split(NormalForm(q))
    IN  Len(sp) < Len(sq) /\ Prefix(sq, Len(sp)) = sp

\* the last three calls were Mount(p), Mount(q) with q beneath p, and Umount(p)
UmountedAbove ==
    /\ op = "Umount"
    /\ mark.stage = "umounted"
    /\ mark.prev # NoPath
    /\ NormalForm(args[1]) = NormalForm(mark.prev)
    /\ Beneath(mark.path, mark.prev)

\* C16: Umount(p) of a mount point p with a mount q beneath it clears the
\* binding of p only: the node of p stays, without a backend, no node is
\* deleted, q still resolves to its own backend with its own mount point, and
\* a path under p that reaches no deeper mount resolves to the nearest bound
\* node above p (here the root).
C16_UmountAboveMounts ==
    UmountedAbove =>
        LET np == Split(NormalForm(args[1]))
            q == resolvePathWithMount(routes, mark.path)
        IN  /\ ret.err = "nil"
            /\ np \in DOMAIN routes
            /\ routes[np].fs = NoFS
            /\ DOMAIN routes = DOMAIN pre
            /\ q.fs = pre[Segments(mark.path)].fs
            /\ q.mount = NormalForm(mark.path)
            /\ \A p \in StatPaths :
                  Beneath(p, args[1]) /\ ~Beneath(p, mark.path)
                      /\ NormalForm(p) # NormalForm(mark.path)
                  => resolvePath(routes, p).fs = routes[<<>>].fs

----------------------------------------------------------------------------
(* C17: ReadDir merges the children of the node at the path only *)

\* C17: when the mount table has no node at the normalized segments of p, or
\* that node has no children, ReadDir(p) makes the backend's ReadDir call and
\* no other, and returns exactly its listing and its error: no entry of a
\* child of a node above p is merged in.
C17_PassThroughWithoutNode ==
    op = "ReadDir" =>
        LET n == Split(NormalForm(args[1]))
        IN  n \notin DOMAIN pre \/ Children(pre, n) = {} =>
               /\ Len(calls) = 1
               /\ ret.err = calls[1].err
               /\ ret.entries = calls[1].entries

----------------------------------------------------------------------------
(* C18: no backend is called with the lock held *)

\* the lines at which a goroutine is in, or about to make, a call of a backend
BackendCalls == {"B", "D202", "D209", "D227"}

\* the lines between a Lock or RLock of mtx and its Unlock or RUnlock
Locked == {"LockWait", "M62", "U83", "U90", "U92", "Unlock", "R124", "D193", "T336"}

\* goroutine g holds mtx, shared or exclusive (or is the writer that waits for
\* the readers to leave)
HoldsLock(g) == g \in mtx.r \/ mtx.w = g

\* C18: no goroutine is in a backend call while it holds the mount-table lock,
\* shared or exclusive: the lock is held only between the lines that lock and
\* unlock it, none of which calls a backend; so a backend call that never
\* returns keeps no Mount, Umount or resolution waiting.
C18_NoBackendCallUnderLock ==
    \A g \in Procs :
        /\ pc[g] \in BackendCalls => ~HoldsLock(g)
        /\ HoldsLock(g) => pc[g] \in Locked

\* a goroutine is in a backend call while another is inside Mount or Umount
\* with the lock held
C18_Witness ==
    \E g \in Procs, h \in Procs :
        /\ pc[g] \in BackendCalls
        /\ pc[h] \in {"M62", "U90", "U92"}

----------------------------------------------------------------------------
(* C19: Mount and Umount are atomic for resolution *)

\* the lines at which a goroutine reads the table with the shared lock held
ReadSection == {"R124", "D193", "T336"}

\* C19: whatever the interleaving, the table a goroutine reads while it
\* resolves a path is the table made by the Mounts and Umounts that have
\* returned, each as a whole: no part of a Mount or Umount under way shows,
\* and none that has returned is missing; the walk of resolvePathWithMount
\* ends as a walk of that table does.
C19_MountAtomicForResolution ==
    \A g \in Procs :
        /\ pc[g] \in ReadSection => routes = committed
        /\ pc[g] = "R124" =>
              /\ loc[g].fs = committed[<<>>].fs
              /\ resolveWalk(committed, loc[g].sp, loc[g].i, loc[g].lastMount)
                    = resolveWalk(committed, loc[g].sp, 0, 0)

\* a goroutine is in the loop of resolvePathWithMount, past a node that a
\* Mount has made, while another waits to lock for a Mount or Umount
C19_Witness ==
    \E g \in Procs, h \in Procs :
        /\ pc[g] = "R124"
        /\ loc[g].i > 0
        /\ pc[h] = "Lock"

----------------------------------------------------------------------------
(* C20: ReadDir merges the children as it copied them *)

\* C20: the backend and the timestamp that ReadDir's merge reads of a child
\* are those the child had when ReadDir copied the children with the lock
\* held, whatever Mount and Umount do meanwhile; and ReadDir never calls the
\* root stat of a child whose backend has been cleared.
C20_ReadDirMergesItsCopy ==
    \A g \in Procs :
        /\ pc[g] # "panic"
        /\ \A n \in DOMAIN loc[g].used :
              /\ loc[g].used[n].fs = loc[g].snap[n].fs
              /\ loc[g].used[n].fs = NoFS => loc[g].used[n].mtime = loc[g].snap[n].mtime

====
